---- MODULE Spec2Model ----
(***************************************************************************)
(* USB device discovery (enumeration) state machine of usbh,               *)
(* src/src/discovery.rs: start_discovery and process_discovery, together   *)
(* with the collaborators they call (transfer issuer, received-data        *)
(* buffer, descriptor parser, driver set).                                 *)
(***************************************************************************)
EXTENDS Integers, Sequences, FiniteSets, TLC

\* ------------------------------------------------------------------ bounds
\* Largest configuration count a device descriptor of the model reports.
MaxConfigs == 2
\* Largest number of descriptor frames in one configuration bundle.
MaxFrames == 3
\* Number of registered drivers.
NumDrivers == 2

\* --------------------------------------------------------------- constants
TYPE_DEVICE == 1
TYPE_CONFIGURATION == 2
DEVICE_DESC_LEN == 18
CONFIG_HEADER_LEN == 9
U8Modulus == 256

\* Device addresses under discovery; an event carries one of them.
DeviceAddrs == {1, 2}

\* The drivers slice, in registration order.
Drivers == [i \in 1..NumDrivers |-> i]

\* ------------------------------------------------------------ DiscoveryState
DeviceDesc == [tag |-> "DeviceDesc", n |-> 0, m |-> 0]
ConfigDescLen(n, m) == [tag |-> "ConfigDescLen", n |-> n, m |-> m]
ConfigDesc(n, m) == [tag |-> "ConfigDesc", n |-> n, m |-> m]
Done == [tag |-> "Done", n |-> 0, m |-> 0]
ParseError == [tag |-> "ParseError", n |-> 0, m |-> 0]
\* No state value exists yet for the device (start_discovery not called).
NotStarted == [tag |-> "NotStarted", n |-> 0, m |-> 0]
\* The call did not return: it panicked.
Panicked == [tag |-> "Panicked", n |-> 0, m |-> 0]

NonTerminalTags == {"DeviceDesc", "ConfigDescLen", "ConfigDesc"}
TerminalTags == {"Done", "ParseError"}

\* ------------------------------------------------------------------ events
ControlInData(a, length) == [kind |-> "ControlInData", addr |-> a, length |-> length]
OtherKinds == {"Stall", "Resume"}
OtherEvent(k) == [kind |-> k, addr |-> 0, length |-> 0]

\* ------------------------------------------------------------- byte helpers
Min(a, b) == IF a < b THEN a ELSE b
Take(s, k) == SubSeq(s, 1, Min(k, Len(s)))
Drop(s, k) == SubSeq(s, k + 1, Len(s))
Zeros(k) == [i \in 1..k |-> 0]

\* ------------------------------------------------- descriptor::parse (external)
\* One descriptor frame: bLength, bDescriptorType, then bLength - 2 payload
\* bytes. Fails on fewer than two bytes, on bLength < 2 and on a frame longer
\* than the buffer; returns the frame and the unconsumed remainder.
any_descriptor(data) ==
    IF Len(data) < 2 \/ data[1] < 2 \/ Len(data) < data[1]
    THEN [ok |-> FALSE, rest |-> <<>>, descriptor_type |-> 0, data |-> <<>>]
    ELSE [ok |-> TRUE, rest |-> Drop(data, data[1]),
          descriptor_type |-> data[2], data |-> SubSeq(data, 3, data[1])]

\* The device descriptor's payload is 16 bytes; bNumConfigurations is the last.
device_descriptor(payload) ==
    IF Len(payload) < DEVICE_DESC_LEN - 2
    THEN [ok |-> FALSE, num_configurations |-> 0]
    ELSE [ok |-> TRUE, num_configurations |-> payload[DEVICE_DESC_LEN - 2]]

\* wTotalLength: the first two payload bytes of a configuration descriptor,
\* little endian.
configuration_descriptor_length(payload) ==
    IF Len(payload) < 2
    THEN [ok |-> FALSE, total_length |-> 0]
    ELSE [ok |-> TRUE, total_length |-> payload[1] + U8Modulus * payload[2]]

\* ------------------------------------------------------- UsbHost (external)
\* host.active: the control transfers outstanding on the bus;
\* host.rxbuf: the bytes of the most recently received buffer.
Transfer(a, dtype, index, length) ==
    [addr |-> a, dtype |-> dtype, index |-> index, length |-> length]

\* host.bus.received_data(length): the received buffer cut to length bytes.
received_data(host, length) == Take(host.rxbuf, length)

\* host.get_descriptor: starts one control-in transfer; Err when the bus is
\* not idle.
get_descriptor(host, dev_addr, dtype, index, length) ==
    IF host.active = <<>>
    THEN [ok |-> TRUE,
          host |-> [host EXCEPT !.active = <<Transfer(dev_addr, dtype, index, length)>>]]
    ELSE [ok |-> FALSE, host |-> host]

\* ------------------------------------------------------------- call results
\* What one call did: the state it returned (Panicked when it did not return),
\* the host it left, the notify calls it made in order, the transfers it
\* started in order.
Outcome(st, host, notes, issued) ==
    [state |-> st, host |-> host, notes |-> notes, issued |-> issued]

\* driver.descriptor(dev_addr, type, data), as seen by the driver set.
Notify(driver, dev_addr, descriptor) ==
    [driver |-> driver, addr |-> dev_addr,
     dtype |-> descriptor.descriptor_type, data |-> descriptor.data]

\* Mutant of NotifyAll: the drivers are walked from the last to the first.
NotifyAllReversed(drivers, dev_addr, descriptor) ==
    [i \in 1..Len(drivers) |->
        Notify(drivers[Len(drivers) + 1 - i], dev_addr, descriptor)]

\* for driver in drivers { driver.descriptor(...) }
NotifyAll(drivers, dev_addr, descriptor) ==
    [i \in 1..Len(drivers) |-> Notify(drivers[i], dev_addr, descriptor)]

\* host.get_descriptor(...).ok().unwrap(); then the arm's value.
IssueThen(host, dev_addr, dtype, index, length, notes, next) ==
    LET g == get_descriptor(host, dev_addr, dtype, index, length)
    IN  IF g.ok
        THEN Outcome(next, g.host, notes, g.host.active)
        ELSE Outcome(Panicked, host, notes, <<>>)

\* ---------------------------------------------------------- start_discovery
\* Mutant of start_discovery: only the first 8 bytes are requested.
start_discovery_short(dev_addr, host) ==
    IssueThen(host, dev_addr, TYPE_DEVICE, 0, 8, <<>>, DeviceDesc)

\* Mutant of start_discovery: the result of get_descriptor is dropped, not
\* unwrapped.
start_discovery_lenient(dev_addr, host) ==
    LET g == get_descriptor(host, dev_addr, TYPE_DEVICE, 0, DEVICE_DESC_LEN)
    IN  IF g.ok
        THEN Outcome(DeviceDesc, g.host, <<>>, g.host.active)
        ELSE Outcome(DeviceDesc, host, <<>>, <<>>)

start_discovery(dev_addr, host) ==
    IssueThen(host, dev_addr, TYPE_DEVICE, 0, DEVICE_DESC_LEN, <<>>, DeviceDesc)

\* -------------------------------------------------------- process_discovery
\* Mutant of add_one_u8: the index is a signed byte.
add_one_i8(n, overflow_checks) ==
    IF n + 1 < U8Modulus \div 2
    THEN [ok |-> TRUE, value |-> n + 1]
    ELSE [ok |-> ~overflow_checks, value |-> (n + 1) % (U8Modulus \div 2)]

\* n + 1 on u8: with overflow checks the addition panics on overflow, without
\* them it wraps.
add_one_u8(n, overflow_checks) ==
    IF n + 1 < U8Modulus
    THEN [ok |-> TRUE, value |-> n + 1]
    ELSE [ok |-> ~overflow_checks, value |-> (n + 1) % U8Modulus]

\* Mutant of device_desc_request: the request asks for 18 bytes, as the
\* device descriptor request does.
device_desc_request_long(host, dev_addr, notes, num_configurations) ==
    IssueThen(host, dev_addr, TYPE_CONFIGURATION, 0, DEVICE_DESC_LEN, notes,
              ConfigDescLen(0, num_configurations))

\* DeviceDesc arm, after both parses succeeded: request the header of
\* configuration 0 and go to ConfigDescLen(0, num_configurations).
device_desc_request(host, dev_addr, notes, num_configurations) ==
    IssueThen(host, dev_addr, TYPE_CONFIGURATION, 0, CONFIG_HEADER_LEN, notes,
              ConfigDescLen(0, num_configurations))

\* DeviceDesc arm, Event::ControlInData.
device_desc_data(length, dev_addr, drivers, host) ==
    LET data == received_data(host, length)
        p == any_descriptor(data)
    IN  IF ~p.ok
        THEN Outcome(ParseError, host, <<>>, <<>>)
        ELSE LET notes == NotifyAll(drivers, dev_addr, p)
                 dd == device_descriptor(p.data)
             IN  IF ~dd.ok
                 THEN Outcome(ParseError, host, notes, <<>>)
                 ELSE device_desc_request(host, dev_addr, notes, dd.num_configurations)

\* Mutant of config_len_request: the full request always names index 0.
config_len_request_first(host, dev_addr, n, m, total_length) ==
    IssueThen(host, dev_addr, TYPE_CONFIGURATION, 0, total_length, <<>>,
              ConfigDesc(n, m))

\* Mutant of config_len_request: the full request is made twice.
config_len_request_twice(host, dev_addr, n, m, total_length) ==
    LET g == get_descriptor(host, dev_addr, TYPE_CONFIGURATION, n, total_length)
    IN  IssueThen(g.host, dev_addr, TYPE_CONFIGURATION, n, total_length, <<>>,
                  ConfigDesc(n, m))

\* ConfigDescLen arm, after both parses succeeded: request configuration n in
\* full and go to ConfigDesc(n, m).
config_len_request(host, dev_addr, n, m, total_length) ==
    IssueThen(host, dev_addr, TYPE_CONFIGURATION, n, total_length, <<>>,
              ConfigDesc(n, m))

\* Mutant of config_len_data: a header without a total length counts as
\* length 0 instead of failing.
config_len_data_lenient(length, dev_addr, n, m, host) ==
    LET data == received_data(host, length)
        p == any_descriptor(data)
    IN  IF ~p.ok
        THEN Outcome(ParseError, host, <<>>, <<>>)
        ELSE config_len_request(host, dev_addr, n, m,
                                configuration_descriptor_length(p.data).total_length)

\* Mutant of config_len_data: the header is handed to every driver, as the
\* device descriptor is.
config_len_data_notifies(length, dev_addr, n, m, host) ==
    LET data == received_data(host, length)
        p == any_descriptor(data)
    IN  IF ~p.ok
        THEN Outcome(ParseError, host, <<>>, <<>>)
        ELSE LET notes == NotifyAll(Drivers, dev_addr, p)
                 cl == configuration_descriptor_length(p.data)
             IN  IF ~cl.ok
                 THEN Outcome(ParseError, host, notes, <<>>)
                 ELSE IssueThen(host, dev_addr, TYPE_CONFIGURATION, n,
                                cl.total_length, notes, ConfigDesc(n, m))

\* ConfigDescLen arm, Event::ControlInData.
config_len_data(length, dev_addr, n, m, host) ==
    LET data == received_data(host, length)
        p == any_descriptor(data)
    IN  IF ~p.ok
        THEN Outcome(ParseError, host, <<>>, <<>>)
        ELSE LET cl == configuration_descriptor_length(p.data)
             IN  IF ~cl.ok
                 THEN Outcome(ParseError, host, <<>>, <<>>)
                 ELSE config_len_request(host, dev_addr, n, m, cl.total_length)

\* ConfigDesc arm, the loop over the frames of the buffer: parse a frame,
\* notify every driver, go on with the rest while bytes remain. Gives the
\* notify calls made and whether the loop ended by break (ok) or by the
\* return of ParseError.
RECURSIVE dispatch_frames(_, _, _)
dispatch_frames(data, drivers, dev_addr) ==
    LET p == any_descriptor(data)
    IN  IF ~p.ok
        THEN [ok |-> FALSE, notes |-> <<>>]
        ELSE LET notes == NotifyAll(drivers, dev_addr, p)
             IN  IF Len(p.rest) > 0
                 THEN LET r == dispatch_frames(p.rest, drivers, dev_addr)
                      IN  [ok |-> r.ok, notes |-> notes \o r.notes]
                 ELSE [ok |-> TRUE, notes |-> notes]

\* Mutant of config_desc_next: the comparison is (n + 1) <= m.
config_desc_next_inclusive(host, dev_addr, n, m, notes, overflow_checks) ==
    LET s == add_one_u8(n, overflow_checks)
    IN  IF ~s.ok
        THEN Outcome(Panicked, host, notes, <<>>)
        ELSE IF s.value <= m
             THEN IssueThen(host, dev_addr, TYPE_CONFIGURATION, s.value,
                            CONFIG_HEADER_LEN, notes, ConfigDescLen(s.value, m))
             ELSE Outcome(Done, host, notes, <<>>)

\* Mutant of config_desc_next: a transfer is started on the way to Done too.
config_desc_next_busy(host, dev_addr, n, m, notes, overflow_checks) ==
    LET s == add_one_u8(n, overflow_checks)
    IN  IF ~s.ok
        THEN Outcome(Panicked, host, notes, <<>>)
        ELSE IF s.value < m
             THEN IssueThen(host, dev_addr, TYPE_CONFIGURATION, s.value,
                            CONFIG_HEADER_LEN, notes, ConfigDescLen(s.value, m))
             ELSE IssueThen(host, dev_addr, TYPE_CONFIGURATION, 0,
                            CONFIG_HEADER_LEN, notes, Done)

\* Mutant of config_desc_next: the header of configuration n is requested
\* again.
config_desc_next_again(host, dev_addr, n, m, notes, overflow_checks) ==
    LET s == add_one_u8(n, overflow_checks)
    IN  IF ~s.ok
        THEN Outcome(Panicked, host, notes, <<>>)
        ELSE IF s.value < m
             THEN IssueThen(host, dev_addr, TYPE_CONFIGURATION, n,
                            CONFIG_HEADER_LEN, notes, ConfigDescLen(s.value, m))
             ELSE Outcome(Done, host, notes, <<>>)

\* Mutant of config_desc_next: the next header request names n + 1 but the
\* state keeps the index n.
config_desc_next_stuck(host, dev_addr, n, m, notes, overflow_checks) ==
    LET s == add_one_u8(n, overflow_checks)
    IN  IF ~s.ok
        THEN Outcome(Panicked, host, notes, <<>>)
        ELSE IF s.value < m
             THEN IssueThen(host, dev_addr, TYPE_CONFIGURATION, s.value,
                            CONFIG_HEADER_LEN, notes, ConfigDescLen(n, m))
             ELSE Outcome(Done, host, notes, <<>>)

\* ConfigDesc arm, after the loop: if (n + 1) < m request the header of
\* configuration n + 1, else Done without a transfer.
config_desc_next(host, dev_addr, n, m, notes, overflow_checks) ==
    LET s == add_one_u8(n, overflow_checks)
    IN  IF ~s.ok
        THEN Outcome(Panicked, host, notes, <<>>)
        ELSE IF s.value < m
             THEN IssueThen(host, dev_addr, TYPE_CONFIGURATION, s.value,
                            CONFIG_HEADER_LEN, notes, ConfigDescLen(s.value, m))
             ELSE Outcome(Done, host, notes, <<>>)

\* Mutant of config_desc_data: the buffer is validated whole before any driver
\* is notified.
config_desc_data_validating(length, dev_addr, n, m, drivers, host, overflow_checks) ==
    LET data == received_data(host, length)
        r == dispatch_frames(data, drivers, dev_addr)
    IN  IF ~r.ok
        THEN Outcome(ParseError, host, <<>>, <<>>)
        ELSE config_desc_next(host, dev_addr, n, m, r.notes, overflow_checks)

\* Mutant of config_desc_data: the loop tests for remaining bytes before it
\* parses a frame.
config_desc_data_test_first(length, dev_addr, n, m, drivers, host, overflow_checks) ==
    LET data == received_data(host, length)
        r == dispatch_frames(data, drivers, dev_addr)
    IN  IF Len(data) = 0
        THEN config_desc_next(host, dev_addr, n, m, <<>>, overflow_checks)
        ELSE IF ~r.ok
             THEN Outcome(ParseError, host, r.notes, <<>>)
             ELSE config_desc_next(host, dev_addr, n, m, r.notes, overflow_checks)

\* ConfigDesc arm, Event::ControlInData.
config_desc_data(length, dev_addr, n, m, drivers, host, overflow_checks) ==
    LET data == received_data(host, length)
        r == dispatch_frames(data, drivers, dev_addr)
    IN  IF ~r.ok
        THEN Outcome(ParseError, host, r.notes, <<>>)
        ELSE config_desc_next(host, dev_addr, n, m, r.notes, overflow_checks)

\* Mutant of other_event: an event that is not data ends the discovery.
other_event_fails(state, host) == Outcome(ParseError, host, <<>>, <<>>)

\* `_ => state`: any other event.
other_event(state, host) == Outcome(state, host, <<>>, <<>>)

\* Mutant of terminal_state: a terminal state is returned as it came.
terminal_state_kept(state, host) == Outcome(state, host, <<>>, <<>>)

\* DiscoveryState::Done | DiscoveryState::ParseError => unreachable!()
terminal_state(state, host) == Outcome(Panicked, host, <<>>, <<>>)

\* Mutant of process_discovery: control-in data of another device counts as
\* any other event.
process_discovery_matching(event, dev_addr, state, drivers, host, overflow_checks) ==
    CASE state.tag \in TerminalTags -> terminal_state(state, host)
      [] state.tag \in NonTerminalTags /\ event.kind = "ControlInData"
         /\ event.addr # dev_addr -> other_event(state, host)
      [] state.tag = "DeviceDesc" /\ event.kind = "ControlInData" ->
            device_desc_data(event.length, dev_addr, drivers, host)
      [] state.tag = "ConfigDescLen" /\ event.kind = "ControlInData" ->
            config_len_data(event.length, dev_addr, state.n, state.m, host)
      [] state.tag = "ConfigDesc" /\ event.kind = "ControlInData" ->
            config_desc_data(event.length, dev_addr, state.n, state.m,
                             drivers, host, overflow_checks)
      [] OTHER -> other_event(state, host)

process_discovery(event, dev_addr, state, drivers, host, overflow_checks) ==
    CASE state.tag = "DeviceDesc" ->
            IF event.kind = "ControlInData"
            THEN device_desc_data(event.length, dev_addr, drivers, host)
            ELSE other_event(state, host)
      [] state.tag = "ConfigDescLen" ->
            IF event.kind = "ControlInData"
            THEN config_len_data(event.length, dev_addr, state.n, state.m, host)
            ELSE other_event(state, host)
      [] state.tag = "ConfigDesc" ->
            IF event.kind = "ControlInData"
            THEN config_desc_data(event.length, dev_addr, state.n, state.m,
                                  drivers, host, overflow_checks)
            ELSE other_event(state, host)
      [] state.tag \in TerminalTags -> terminal_state(state, host)

\* ------------------------------------------- the buffers a device may answer
\* A descriptor frame as the device holds it: type tag and payload.
Descriptor(dtype, data) == [descriptor_type |-> dtype, data |-> data]

\* The bytes of a frame on the wire: bLength, bDescriptorType, payload.
Encode(f) == <<Len(f.data) + 2, f.descriptor_type>> \o f.data

\* The bytes of a sequence of frames, one after the other.
RECURSIVE Concat(_)
Concat(fs) == IF fs = <<>> THEN <<>> ELSE Encode(Head(fs)) \o Concat(Tail(fs))

\* The 18-byte device descriptor reporting m configurations.
DeviceFrame(m) ==
    Descriptor(TYPE_DEVICE, <<0, 2, 0, 0, 0, 64, 52, 18, 120, 86, 0, 1, 1, 2, 3, m>>)

\* The 9-byte configuration descriptor declaring wTotalLength = total.
ConfigHeaderFrame(total) ==
    Descriptor(TYPE_CONFIGURATION,
               <<total % U8Modulus, total \div U8Modulus, 1, 1, 0, 128, 50>>)

\* An interface descriptor (type 4) and an endpoint descriptor (type 5).
InterfaceFrame == Descriptor(4, <<0, 0, 1, 3, 1, 1, 0>>)
EndpointFrame == Descriptor(5, <<129, 3, 8, 0, 10>>)

\* The frames 2..k of a bundle: interface and endpoint descriptors in turn.
SubFrames(k) ==
    [i \in 1..(k - 1) |-> IF i % 2 = 1 THEN InterfaceFrame ELSE EndpointFrame]

\* A configuration bundle of k frames whose header declares the length of the
\* bundle followed by extra more bytes.
BundleFrames(k, extra) ==
    LET subs == SubFrames(k)
    IN  <<ConfigHeaderFrame(CONFIG_HEADER_LEN + Len(Concat(subs)) + extra)>> \o subs

\* A bundle of k well-formed frames, its header declaring its true length.
ConfigBundle(k) == Concat(BundleFrames(k, 0))

\* The first bytes of a frame that is cut short.
CutFrame == Take(Encode(EndpointFrame), 3)

\* A bundle of k well-formed frames followed by a frame cut short, the
\* header's length covering all of it.
BrokenBundle(k) == Concat(BundleFrames(k, Len(CutFrame))) \o CutFrame

\* The header of a bundle longer than 255 bytes: wTotalLength needs both of
\* its bytes.
LongTotal == U8Modulus + CONFIG_HEADER_LEN
LongHeader == Encode(ConfigHeaderFrame(LongTotal))

\* A device descriptor too short to hold a configuration count, and a
\* configuration descriptor too short to hold a total length.
ShortDeviceFrame == Descriptor(TYPE_DEVICE, Zeros(8))
ShortConfigFrame == Descriptor(TYPE_CONFIGURATION, <<9>>)

WellFormedBuffers ==
    {Encode(DeviceFrame(m)) : m \in 0..MaxConfigs}
    \cup {ConfigBundle(k) : k \in 1..MaxFrames}
    \cup {LongHeader}

MalformedBuffers ==
    { <<>>,                                 \* nothing received
      <<9>>,                                \* no type byte
      <<1, 2>>,                             \* bLength below 2
      Take(Encode(InterfaceFrame), 5),      \* frame longer than the buffer
      Encode(ShortDeviceFrame),             \* no configuration count
      Encode(ShortConfigFrame) }            \* no total length
    \cup {BrokenBundle(k) : k \in 1..MaxFrames}

Buffers == WellFormedBuffers \cup MalformedBuffers

\* -------------------------------------------------------------------- state
VARIABLES
    state,      \* the caller's DiscoveryState value of each device
    host,       \* the UsbHost: outstanding transfers and received buffer
    last,       \* the most recent call: its arguments and what it did
    stalled,    \* some transfer ended without a control-in data event
    panicked,   \* a call panicked: the program is aborted
    hist        \* what the run has done for each device so far

vars == <<state, host, last, stalled, panicked, hist>>

NoEvent == [kind |-> "None", addr |-> 0, length |-> 0]

Call(op, d, event, pre, before, r) ==
    [op |-> op, dev |-> d, event |-> event, pre |-> pre, before |-> before,
     ret |-> r.state, notes |-> r.notes, issued |-> r.issued]

\* The history of a device nothing was called for: the states its state value
\* went through, the notify calls each driver got for it (all, and those of
\* configuration descriptors), the frames of the well-formed buffers it read,
\* whether every buffer it read was well-formed, the number of transfers
\* started for it and the last two of them, the total length its last header
\* buffer declared, and the control-in data events it handled.
NoHistory ==
    [trail |-> <<>>, notes |-> [i \in 1..NumDrivers |-> 0],
     headers |-> [i \in 1..NumDrivers |-> 0], frames |-> 0, clean |-> TRUE,
     nreqs |-> 0, reqs |-> <<>>, decl |-> 0, events |-> 0]

Init ==
    /\ hist = [d \in DeviceAddrs |-> NoHistory]
    /\ state = [d \in DeviceAddrs |-> NotStarted]
    /\ host = [active |-> <<>>, rxbuf |-> <<>>]
    /\ last = Call("none", 0, NoEvent, NotStarted, [active |-> <<>>, rxbuf |-> <<>>],
                   Outcome(NotStarted, host, <<>>, <<>>))
    /\ stalled = FALSE
    /\ panicked = FALSE

\* What a call leaves behind: the host as the call left it, the caller's state
\* value replaced by the returned one, or the abort.
Returns(op, d, event, before, r) ==
    /\ host' = r.host
    /\ panicked' = (r.state = Panicked)
    /\ state' = IF r.state = Panicked THEN state ELSE [state EXCEPT ![d] = r.state]
    /\ last' = Call(op, d, event, state[d], before, r)

\* The builds that can tell themselves apart in a call with state st: overflow
\* checks matter only where n + 1 leaves u8.
Builds(st) ==
    IF st.tag = "ConfigDesc" /\ st.n + 1 >= U8Modulus THEN BOOLEAN ELSE {TRUE}

\* The caller starts the discovery of device d.
StartDiscoveryCall(d) ==
    /\ ~panicked
    /\ state[d] = NotStarted
    /\ Returns("start_discovery", d, NoEvent, host, start_discovery(d, host))
    /\ UNCHANGED stalled

\* The outstanding transfer completes with the bytes b, cut to the requested
\* length; the host is idle again and emits ControlInData(a, length), which
\* the caller hands to process_discovery with the state of device d.
ControlInCall(d, a, b) ==
    /\ ~panicked
    /\ state[d] # NotStarted
    /\ host.active # <<>>
    /\ \E overflow_checks \in Builds(state[d]) :
         LET rx == Take(b, Head(host.active).length)
             before == [active |-> Tail(host.active), rxbuf |-> rx]
             event == ControlInData(a, Len(rx))
         IN  Returns("process_discovery", d, event, before,
                     process_discovery(event, d, state[d], Drivers, before,
                                       overflow_checks))
    /\ UNCHANGED stalled

\* Any other event reaches process_discovery with the state of device d. A
\* Stall ends the outstanding transfer, if there is one, without data.
OtherCall(d, kind) ==
    /\ ~panicked
    /\ state[d] # NotStarted
    /\ \E overflow_checks \in Builds(state[d]) :
         LET ends == kind = "Stall" /\ host.active # <<>>
             before == IF ends THEN [host EXCEPT !.active = Tail(@)] ELSE host
             event == OtherEvent(kind)
         IN  /\ Returns("process_discovery", d, event, before,
                        process_discovery(event, d, state[d], Drivers, before,
                                          overflow_checks))
             /\ stalled' = (stalled \/ ends)

\* The calls, the history left alone.
StartDiscovery(d) == StartDiscoveryCall(d) /\ UNCHANGED hist
ControlIn(d, a, b) == ControlInCall(d, a, b) /\ UNCHANGED hist
Other(d, kind) == OtherCall(d, kind) /\ UNCHANGED hist

Next ==
    \/ \E d \in DeviceAddrs : StartDiscovery(d)
    \/ \E d \in DeviceAddrs, a \in DeviceAddrs, b \in Buffers : ControlIn(d, a, b)
    \/ \E d \in DeviceAddrs, k \in OtherKinds : Other(d, k)

Spec == Init /\ [][Next]_vars

\* ------------------------------------------------------- reading the last call
IsStart == last.op = "start_discovery"
IsProcess == last.op = "process_discovery"
IsData == IsProcess /\ last.event.kind = "ControlInData"

\* The bytes the last call read from the host.
Buf == received_data(last.before, last.event.length)

\* The number of transfers outstanding for device d.
Outstanding(d) ==
    Cardinality({i \in DOMAIN host.active : host.active[i].addr = d})

\* The sequences of well-formed frames a device of the model can deliver whole.
Prefixes(fs) == {SubSeq(fs, 1, j) : j \in 1..Len(fs)}
FrameLists ==
    {<<DeviceFrame(m)>> : m \in 0..MaxConfigs}
    \cup UNION {Prefixes(BundleFrames(k, 0)) : k \in 1..MaxFrames}
    \cup UNION {Prefixes(BundleFrames(k, Len(CutFrame))) : k \in 1..MaxFrames}
    \cup {<<ConfigHeaderFrame(LongTotal)>>, <<ShortDeviceFrame>>, <<ShortConfigFrame>>}

\* One notify call per driver, in registration order, for the frame f.
NotesOfFrame(f, d) ==
    [i \in 1..NumDrivers |->
        [driver |-> Drivers[i], addr |-> d, dtype |-> f.descriptor_type, data |-> f.data]]

\* (f1,d1), ..., (f1,dD), (f2,d1), ..., (fk,dD).
NotesOfFrames(fs, d) ==
    [x \in 1..(Len(fs) * NumDrivers) |->
        NotesOfFrame(fs[((x - 1) \div NumDrivers) + 1], d)[((x - 1) % NumDrivers) + 1]]

\* ------------------------------------------------------------------- claims
\* C1: for every device address, start_discovery called on an idle bus returns
\* DeviceDesc and issues exactly one transfer, GET_DESCRIPTOR(Device, index 0,
\* length 18) addressed to that device, and notifies no driver.
C1_StartIssuesDeviceRequest ==
    (IsStart /\ last.before.active = <<>>) =>
        /\ last.ret = DeviceDesc
        /\ state[last.dev] = DeviceDesc
        /\ last.issued = <<Transfer(last.dev, TYPE_DEVICE, 0, DEVICE_DESC_LEN)>>
        /\ host.active = last.issued
        /\ last.notes = <<>>

C1_Witness ==
    /\ IsStart /\ last.dev = 2 /\ last.before.active = <<>>
    /\ last.ret = DeviceDesc /\ state[1] # NotStarted

\* C2 as stated: for every event other than control-in data and for each of
\* the five states, process_discovery returns the input state, issues no
\* transfer and notifies no driver.
C2_Original ==
    (IsProcess /\ last.event.kind # "ControlInData") =>
        /\ last.ret = last.pre
        /\ last.issued = <<>>
        /\ last.notes = <<>>

\* C2 amended: for every event other than control-in data, process_discovery
\* in DeviceDesc, ConfigDescLen(n, m) or ConfigDesc(n, m) returns the input
\* state, issues no transfer and notifies no driver; in Done and ParseError it
\* panics instead of returning, again with no transfer and no notification.
C2_OtherEventsNoOp ==
    (IsProcess /\ last.event.kind # "ControlInData") =>
        /\ last.issued = <<>>
        /\ last.notes = <<>>
        /\ host = last.before
        /\ last.pre.tag \in NonTerminalTags =>
              last.ret = last.pre /\ state[last.dev] = last.pre
        /\ last.pre.tag \in TerminalTags => last.ret = Panicked

C2_Witness ==
    /\ IsProcess /\ last.event.kind = "Stall"
    /\ last.pre.tag = "ConfigDesc" /\ last.ret = last.pre

\* C3: in DeviceDesc, control-in data holding a well-formed device descriptor
\* that reports m configurations gives ConfigDescLen(0, m), exactly one
\* GET_DESCRIPTOR(Configuration, index 0, length 9) to dev_addr, and one
\* notify call per driver carrying the descriptor's type tag and payload.
C3_DeviceDescStep ==
    (IsData /\ last.pre = DeviceDesc) =>
        \A m \in 0..MaxConfigs :
            Buf = Encode(DeviceFrame(m)) =>
                /\ last.ret = ConfigDescLen(0, m)
                /\ last.issued =
                      <<Transfer(last.dev, TYPE_CONFIGURATION, 0, CONFIG_HEADER_LEN)>>
                /\ host.active = last.issued
                /\ last.notes = NotesOfFrame(DeviceFrame(m), last.dev)

C3_Witness ==
    /\ IsData /\ last.pre = DeviceDesc
    /\ Buf = Encode(DeviceFrame(MaxConfigs))
    /\ last.ret = ConfigDescLen(0, MaxConfigs)
    /\ Len(last.notes) = NumDrivers

\* C4: in ConfigDescLen(n, m), control-in data holding a well-formed
\* configuration header that declares total length L gives ConfigDesc(n, m)
\* with the same n and m and exactly one GET_DESCRIPTOR(Configuration, index n,
\* length L) to dev_addr.
C4_ConfigDescLenStep ==
    (IsData /\ last.pre.tag = "ConfigDescLen") =>
        \A L \in 0..(2 * U8Modulus) :
            Buf = Encode(ConfigHeaderFrame(L)) =>
                /\ last.ret = ConfigDesc(last.pre.n, last.pre.m)
                /\ last.issued =
                      <<Transfer(last.dev, TYPE_CONFIGURATION, last.pre.n, L)>>
                /\ host.active = last.issued

C4_Witness ==
    /\ IsData /\ last.pre.tag = "ConfigDescLen" /\ last.pre.n > 0
    /\ Buf = Encode(ConfigHeaderFrame(LongTotal))
    /\ last.ret.tag = "ConfigDesc"

\* C5: in ConfigDesc(n, m), control-in data holding well-formed frames gives
\* ConfigDescLen(n + 1, m) and exactly one GET_DESCRIPTOR(Configuration, index
\* n + 1, length 9) when n + 1 < m, and Done with no transfer when n + 1 = m.
C5_ConfigDescStep ==
    (IsData /\ last.pre.tag = "ConfigDesc" /\ \E fs \in FrameLists : Buf = Concat(fs)) =>
        LET n == last.pre.n
            m == last.pre.m
        IN  /\ n + 1 < m =>
                  /\ last.ret = ConfigDescLen(n + 1, m)
                  /\ last.issued =
                        <<Transfer(last.dev, TYPE_CONFIGURATION, n + 1, CONFIG_HEADER_LEN)>>
                  /\ host.active = last.issued
            /\ n + 1 = m =>
                  /\ last.ret = Done
                  /\ last.issued = <<>>
                  /\ host.active = <<>>

C5_Witness ==
    /\ IsData /\ last.pre.tag = "ConfigDesc" /\ last.ret = Done
    /\ state[last.dev] = Done
    /\ last.pre.n + 1 = last.pre.m /\ last.pre.n > 0
    /\ \E fs \in FrameLists : Buf = Concat(fs)

\* C6: in ConfigDesc(n, m), control-in data holding k well-formed frames
\* f1..fk produces exactly the notify calls (f1,d1), ..., (f1,dD), (f2,d1),
\* ..., (fk,dD): frames in buffer order, and for each frame the drivers in
\* registration order.
C6_NotifyOrder ==
    (IsData /\ last.pre.tag = "ConfigDesc") =>
        \A fs \in FrameLists :
            Buf = Concat(fs) => last.notes = NotesOfFrames(fs, last.dev)

C6_Witness ==
    /\ IsData /\ last.pre.tag = "ConfigDesc"
    /\ Buf = ConfigBundle(MaxFrames)
    /\ Len(last.notes) = MaxFrames * NumDrivers

\* The first frame of buf is malformed.
BadFrame(buf) == Len(buf) < 2 \/ buf[1] < 2 \/ Len(buf) < buf[1]

\* buf is not a sequence of one or more whole frames.
RECURSIVE BadFrames(_)
BadFrames(buf) ==
    \/ BadFrame(buf)
    \/ Len(buf) > buf[1] /\ BadFrames(Drop(buf, buf[1]))

\* What each non-terminal state rejects: a malformed frame, a device
\* descriptor without its configuration count, a configuration header without
\* its total length.
Malformed(tag, buf) ==
    CASE tag = "DeviceDesc" -> BadFrame(buf) \/ buf[1] < DEVICE_DESC_LEN
      [] tag = "ConfigDescLen" -> BadFrame(buf) \/ buf[1] < 4
      [] tag = "ConfigDesc" -> BadFrames(buf)

\* C7: in DeviceDesc, ConfigDescLen and ConfigDesc, control-in data holding a
\* malformed buffer gives ParseError and no transfer: the bus is left idle.
C7_MalformedGivesParseError ==
    (IsData /\ last.pre.tag \in NonTerminalTags /\ Malformed(last.pre.tag, Buf)) =>
        /\ last.ret = ParseError
        /\ state[last.dev] = ParseError
        /\ last.issued = <<>>
        /\ host.active = <<>>

C7_Witness ==
    /\ IsData /\ last.pre.tag = "ConfigDesc"
    /\ Buf = BrokenBundle(2)
    /\ last.ret = ParseError

\* C8 as stated: in every reachable state, ConfigDescLen(n, m) and
\* ConfigDesc(n, m) have n < m.
C8_IndexBelowCount ==
    \A d \in DeviceAddrs :
        state[d].tag \in {"ConfigDescLen", "ConfigDesc"} => state[d].n < state[d].m

\* C9: after start_discovery and after every process_discovery call that
\* returns, as long as every transfer has ended with a control-in data event,
\* the device has exactly one transfer outstanding when the returned state is
\* DeviceDesc, ConfigDescLen or ConfigDesc, and none when it is Done or
\* ParseError.
C9_OneOutstandingTransfer ==
    ((IsStart \/ IsProcess) /\ last.ret # Panicked /\ ~stalled) =>
        Outstanding(last.dev) = IF last.ret.tag \in NonTerminalTags THEN 1 ELSE 0

C9_Witness ==
    /\ IsData /\ ~stalled /\ last.ret = Done
    /\ state[last.dev] = Done /\ host.active = <<>>

\* C10: process_discovery called with Done or ParseError panics for every
\* event: it returns no state, issues no transfer and notifies no driver.
C10_TerminalPanics ==
    (IsProcess /\ last.pre.tag \in TerminalTags) =>
        /\ last.ret = Panicked
        /\ panicked
        /\ last.issued = <<>>
        /\ last.notes = <<>>
        /\ host = last.before
        /\ state[last.dev] = last.pre

C10_Witness ==
    /\ IsData /\ last.pre = ParseError /\ panicked

\* ---------------------------------------------------------- runs with history
\* The total lengths the configuration headers of the model declare.
DeclaredTotals ==
    {CONFIG_HEADER_LEN + Len(Concat(SubFrames(k))) + e :
        k \in 1..MaxFrames, e \in {0, Len(CutFrame)}}
    \cup {LongTotal}

\* The frame sequences that make up exactly the bytes buf.
FramesOf(buf) == {fs \in FrameLists : buf = Concat(fs)}

\* The well-formed frames a call c in a non-terminal state was given, as the
\* device built them: the empty set when the buffer is not well-formed for
\* the state.
GoodFrames(c) ==
    LET buf == received_data(c.before, c.event.length)
    IN  CASE c.pre.tag = "DeviceDesc" ->
                {fs \in FramesOf(buf) : \E m \in 0..MaxConfigs : fs = <<DeviceFrame(m)>>}
          [] c.pre.tag = "ConfigDescLen" ->
                {fs \in FramesOf(buf) :
                    \E L \in DeclaredTotals : fs = <<ConfigHeaderFrame(L)>>}
          [] c.pre.tag = "ConfigDesc" ->
                {fs \in FramesOf(buf) : fs[1].descriptor_type = TYPE_CONFIGURATION}
          [] OTHER -> {}

\* The number of notify calls of c that driver i got, of every type or of
\* type dtype alone.
NotesTo(c, i) == Cardinality({x \in DOMAIN c.notes : c.notes[x].driver = Drivers[i]})
TypedNotesTo(c, i, dtype) ==
    Cardinality({x \in DOMAIN c.notes :
                    c.notes[x].driver = Drivers[i] /\ c.notes[x].dtype = dtype})

\* The last two elements of a sequence.
LastTwo(q) == IF Len(q) <= 2 THEN q ELSE SubSeq(q, Len(q) - 1, Len(q))

\* The total length the configuration header f was built with.
DeclaredBy(f) == CHOOSE L \in DeclaredTotals : f = ConfigHeaderFrame(L)

\* The history h of a device after the call c made for it.
Track(h, c) ==
    LET data == c.op = "process_discovery" /\ c.event.kind = "ControlInData"
                /\ c.pre.tag \in NonTerminalTags
        good == GoodFrames(c)
        fs == CHOOSE x \in good : TRUE
    IN  [trail |-> IF c.ret # Panicked /\ c.ret # c.pre
                   THEN Append(h.trail, c.ret) ELSE h.trail,
         notes |-> [i \in 1..NumDrivers |-> h.notes[i] + NotesTo(c, i)],
         headers |-> [i \in 1..NumDrivers |->
                         h.headers[i] + TypedNotesTo(c, i, TYPE_CONFIGURATION)],
         frames |-> IF data /\ good # {} /\ c.pre.tag # "ConfigDescLen"
                    THEN h.frames + Len(fs) ELSE h.frames,
         clean |-> h.clean /\ (data => good # {}),
         nreqs |-> h.nreqs + Len(c.issued),
         reqs |-> LastTwo(h.reqs \o c.issued),
         decl |-> IF data /\ good # {} /\ c.pre.tag = "ConfigDescLen"
                  THEN DeclaredBy(fs[1]) ELSE h.decl,
         events |-> IF data THEN h.events + 1 ELSE h.events]

\* The call just made enters the history of its device.
Recorded == hist' = [hist EXCEPT ![last'.dev] = Track(@, last')]

StartDiscoveryRun(d) == StartDiscoveryCall(d) /\ Recorded
ControlInRun(d, a, b) == ControlInCall(d, a, b) /\ Recorded
OtherRun(d, kind) == OtherCall(d, kind) /\ Recorded

\* The runs of a single device, device 1, with their history.
NextSingle ==
    \/ StartDiscoveryRun(1)
    \/ \E a \in DeviceAddrs, b \in Buffers : ControlInRun(1, a, b)
    \/ \E k \in OtherKinds : OtherRun(1, k)

SpecSingle == Init /\ [][NextSingle]_vars

\* The runs of device 1 in which every transfer ends with a control-in data
\* event; the host completes every transfer it started, so that a data event
\* that stays possible does happen.
DataEvent == \E a \in DeviceAddrs, b \in Buffers : ControlInRun(1, a, b)

NextLive ==
    \/ StartDiscoveryRun(1)
    \/ DataEvent
    \/ OtherRun(1, "Resume")

SpecLive == Init /\ [][NextLive]_vars /\ WF_vars(DataEvent)

\* The runs of device 1 when it reports up to 255 configurations.
U8Buffers ==
    {Encode(DeviceFrame(m)) : m \in (0..MaxConfigs) \cup {U8Modulus - 1}}
    \cup {ConfigBundle(1), <<>>}

NextU8 ==
    \/ StartDiscovery(1)
    \/ \E b \in U8Buffers : ControlIn(1, 1, b)
    \/ Other(1, "Resume")

SpecU8 == Init /\ [][NextU8]_vars

\* ------------------------------------------------------------ claims on runs
\* The states a device reporting m configurations goes through, DeviceDesc
\* first and Done last.
Walk(m) ==
    <<DeviceDesc>>
    \o [i \in 1..(2 * m) |->
          IF i % 2 = 1 THEN ConfigDescLen((i - 1) \div 2, m)
          ELSE ConfigDesc((i - 2) \div 2, m)]
    \o <<Done>>

\* The configuration count the device descriptor of the run reported.
Reported(h) == h.trail[2].m

\* The history of a run whose device descriptor was read from a well-formed
\* buffer, and whose every other buffer was well-formed too.
CleanRun(h) == h.clean /\ Len(h.trail) >= 2 /\ h.trail[2].tag = "ConfigDescLen"

\* C11: a run whose every buffer is well-formed, for a device reporting m
\* configurations, goes through DeviceDesc, ConfigDescLen(0,m), ConfigDesc(0,m),
\* ..., ConfigDesc(m-1,m), Done and no other state; each driver gets one notify
\* call per frame read, 1 + k_0 + ... + k_(m-1) in all; the call that reaches
\* Done issues no transfer.
C11_CanonicalWalk ==
    LET h == hist[1]
        w == Walk(Reported(h))
    IN  /\ CleanRun(h) =>
            /\ Len(h.trail) <= Len(w)
            /\ h.trail = SubSeq(w, 1, Len(h.trail))
            /\ \A i \in 1..NumDrivers : h.notes[i] = h.frames
        /\ (last.ret = Done) => last.issued = <<>>

\* The same for the devices that report at least one configuration.
WalkFromOne ==
    LET h == hist[1]
        w == Walk(Reported(h))
    IN  /\ (CleanRun(h) /\ Reported(h) >= 1) =>
            /\ Len(h.trail) <= Len(w)
            /\ h.trail = SubSeq(w, 1, Len(h.trail))
            /\ \A i \in 1..NumDrivers : h.notes[i] = h.frames
            /\ (state[1] = Done <=> h.trail = w)
        /\ (last.ret = Done) => last.issued = <<>>

WalkDone ==
    /\ CleanRun(hist[1]) /\ Reported(hist[1]) = MaxConfigs /\ state[1] = Done
    /\ hist[1].frames > 1 + MaxConfigs

\* The steps the state value of a device discovered alone can take.
SoloStep(s, t) ==
    \/ s = NotStarted /\ t = DeviceDesc
    \/ s = DeviceDesc /\ t.tag = "ConfigDescLen" /\ t.n = 0
    \/ s.tag = "ConfigDescLen" /\ t = ConfigDesc(s.n, s.m)
    \/ s.tag = "ConfigDesc" /\ s.n + 1 < s.m /\ t = ConfigDescLen(s.n + 1, s.m)
    \/ s.tag = "ConfigDesc" /\ ~(s.n + 1 < s.m) /\ t = Done
    \/ s.tag \in NonTerminalTags /\ t = ParseError

\* The last call was stopped by the unwrap of a failed get_descriptor.
UnwrapPanic == last.ret = Panicked /\ last.pre.tag \notin TerminalTags

C13_IdleBusRequests ==
    /\ ~UnwrapPanic
    /\ Len(last.issued) <= 1
    /\ Len(host.active) <= 1
    /\ last.issued # <<>> =>
          /\ last.before.active = <<>>
          /\ host.active = last.issued
          /\ IsStart \/ (IsData /\ last.pre.tag \in NonTerminalTags)

C13_Witness ==
    /\ IsData /\ last.pre.tag = "ConfigDesc" /\ last.ret.tag = "ConfigDescLen"
    /\ Len(last.issued) = 1 /\ hist[1].nreqs = 4

\* C14: the transfers of a run are the device descriptor request, then for
\* the indices 0, 1, ... in turn the 9-byte header request of the index
\* followed at once by the full request of the same index, its length the
\* total length the header buffer declared: request 2k is the header request
\* of index k - 1, request 2k + 1 the full request of index k - 1.
C14_RequestOrder ==
    LET h == hist[1]
        k == h.nreqs \div 2
        q == h.reqs
    IN  /\ Len(q) = Min(h.nreqs, 2)
        /\ h.nreqs = 1 => q[1] = Transfer(1, TYPE_DEVICE, 0, DEVICE_DESC_LEN)
        /\ (h.nreqs >= 2 /\ h.nreqs % 2 = 0) =>
              q[2] = Transfer(1, TYPE_CONFIGURATION, k - 1, CONFIG_HEADER_LEN)
        /\ (h.nreqs >= 3 /\ h.nreqs % 2 = 1) =>
              /\ q[1] = Transfer(1, TYPE_CONFIGURATION, k - 1, CONFIG_HEADER_LEN)
              /\ q[2] = Transfer(1, TYPE_CONFIGURATION, k - 1, h.decl)

C14_Witness ==
    /\ hist[1].nreqs = 5 /\ last.issued # <<>>
    /\ hist[1].decl > CONFIG_HEADER_LEN /\ hist[1].reqs[2].index = 1

\* The place of a state in the order DeviceDesc < ConfigDescLen(0,m) <
\* ConfigDesc(0,m) < ConfigDescLen(1,m) < ... < Done, ParseError.
Rank(s) ==
    CASE s.tag = "DeviceDesc" -> 0
      [] s.tag = "ConfigDescLen" -> 2 * s.n + 1
      [] s.tag = "ConfigDesc" -> 2 * s.n + 2
      [] s.tag \in TerminalTags -> 2 * U8Modulus + 1

\* The run of device 1 has read a device descriptor reporting m >= 1
\* configurations.
ReportsSome ==
    /\ Len(hist[1].trail) >= 2 /\ hist[1].trail[2].tag = "ConfigDescLen"
    /\ Reported(hist[1]) >= 1

\* Every control-in data event handled in a non-terminal state returns a
\* state later in the order; a device reporting m >= 1 configurations has
\* handled at most 2m + 1 of them, and is in Done or ParseError when it has
\* handled 2m + 1.
Advances ==
    /\ (IsData /\ last.pre.tag \in NonTerminalTags) =>
          /\ last.ret # Panicked
          /\ Rank(last.ret) > Rank(last.pre)
    /\ ReportsSome =>
          /\ hist[1].events <= 2 * Reported(hist[1]) + 1
          /\ hist[1].events = 2 * Reported(hist[1]) + 1 =>
                state[1].tag \in TerminalTags

\* C15: every control-in data event handled in a non-terminal state strictly
\* advances the discovery, and when every issued transfer completes with a
\* control-in data event a started discovery reaches Done or ParseError, after
\* at most 2m + 1 such events for a device reporting m >= 1 configurations.
C15_Terminates ==
    /\ []Advances
    /\ (state[1] = DeviceDesc) ~> (state[1].tag \in TerminalTags)

C15_Witness ==
    /\ ReportsSome /\ Reported(hist[1]) = MaxConfigs
    /\ hist[1].events = 2 * MaxConfigs + 1 /\ state[1] = Done

\* The number of configuration bundles the run has read: the ConfigDesc
\* states it has left.
BundlesRead(h) ==
    Cardinality({j \in 1..(Len(h.trail) - 1) : h.trail[j].tag = "ConfigDesc"})

\* C16: a call in state ConfigDescLen(n, m) notifies no driver, whatever the
\* event and the outcome of parsing; a call in state ConfigDesc that reads a
\* bundle hands its header to each driver once, as the first frame; so in a
\* run of well-formed buffers each driver has got one configuration
\* descriptor per bundle read.
C16_HeaderOnce ==
    /\ (IsProcess /\ last.pre.tag = "ConfigDescLen") => last.notes = <<>>
    /\ (IsData /\ last.pre.tag = "ConfigDesc" /\ GoodFrames(last) # {}) =>
          \A i \in 1..NumDrivers :
              /\ TypedNotesTo(last, i, TYPE_CONFIGURATION) = 1
              /\ \E fs \in GoodFrames(last) :
                    last.notes[i] = Notify(Drivers[i], last.dev, fs[1])
    /\ CleanRun(hist[1]) =>
          \A i \in 1..NumDrivers : hist[1].headers[i] = BundlesRead(hist[1])

C16_Witness ==
    /\ CleanRun(hist[1]) /\ state[1] = Done /\ Reported(hist[1]) = MaxConfigs
    /\ \A i \in 1..NumDrivers : hist[1].headers[i] = MaxConfigs
    /\ Len(last.notes) > NumDrivers

\* The bytes of buf after the frames fs, when buf starts with them and goes on.
After(buf, fs) == Drop(buf, Len(Concat(fs)))
Leads(fs, buf) ==
    Len(Concat(fs)) < Len(buf) /\ Take(buf, Len(Concat(fs))) = Concat(fs)

\* C17: notify calls are made before the rest of the buffer is validated and
\* stay made on failure. In ConfigDesc, a buffer whose first j-1 frames are
\* well-formed and whose frame j is malformed gives ParseError after every
\* driver got exactly those j-1 frames, in buffer order; in DeviceDesc, a
\* well-formed frame too short to hold the configuration count gives
\* ParseError after every driver got that one frame.
C17_NotifiedBeforeFailure ==
    /\ (IsData /\ last.pre.tag = "ConfigDesc") =>
          \A fs \in FrameLists \cup {<<>>} :
              (Leads(fs, Buf) /\ BadFrame(After(Buf, fs))) =>
                  /\ last.ret = ParseError
                  /\ last.notes = NotesOfFrames(fs, last.dev)
    /\ (IsData /\ last.pre = DeviceDesc /\ ~BadFrame(Buf) /\ Buf[1] < DEVICE_DESC_LEN) =>
          /\ last.ret = ParseError
          /\ last.notes = NotifyAll(Drivers, last.dev, any_descriptor(Buf))

C17_Witness ==
    /\ IsData /\ last.pre.tag = "ConfigDesc" /\ last.ret = ParseError
    /\ Buf = BrokenBundle(MaxFrames - 1)
    /\ Len(last.notes) = (MaxFrames - 1) * NumDrivers

C17_ShortDevice ==
    /\ IsData /\ last.pre = DeviceDesc /\ last.ret = ParseError
    /\ Buf = Encode(ShortDeviceFrame) /\ Len(last.notes) = NumDrivers

\* What process_discovery does with the arguments of the last call when the
\* event carries the address addr.
WithAddress(addr) ==
    {process_discovery(ControlInData(addr, last.event.length), last.dev, last.pre,
                       Drivers, last.before, c) : c \in Builds(last.pre)}

\* C18: the device address carried by a control-in data event is never
\* compared with dev_addr: the call does what it does for an event carrying
\* dev_addr, and every notify call and every transfer of the call carries
\* dev_addr.
C18_EventAddressIgnored ==
    IsData =>
        /\ \A x \in DOMAIN last.notes : last.notes[x].addr = last.dev
        /\ \A x \in DOMAIN last.issued : last.issued[x].addr = last.dev
        /\ \E r \in WithAddress(last.dev) :
              /\ r.state = last.ret
              /\ r.notes = last.notes
              /\ r.issued = last.issued
              /\ r.host = host

C18_Witness ==
    /\ IsData /\ last.event.addr # last.dev
    /\ last.pre.tag = "ConfigDesc" /\ last.ret.tag = "ConfigDescLen"
    /\ last.notes # <<>> /\ last.issued # <<>>

\* C19: in every ConfigDesc(n, m) state reached from start_discovery, for
\* every configuration count the device can report, n + 1 fits in 8 bits
\* (n <= 254): the call neither panics on overflow nor wraps, the next index
\* is n + 1 and the comparison is made on n + 1.
C19_NoOverflow ==
    /\ \A d \in DeviceAddrs :
          state[d].tag \in {"ConfigDescLen", "ConfigDesc"} =>
              state[d].n + 1 < U8Modulus
    /\ (IsData /\ last.pre.tag = "ConfigDesc") =>
          /\ Builds(last.pre) = {TRUE}
          /\ last.ret # Panicked
          /\ last.ret.tag = "ConfigDescLen" =>
                last.ret.n = last.pre.n + 1 /\ last.pre.n + 1 < last.pre.m
          /\ last.ret = Done => ~(last.pre.n + 1 < last.pre.m)

C19_Witness ==
    /\ IsData /\ last.pre = ConfigDesc(U8Modulus - 2, U8Modulus - 1)
    /\ last.ret = Done /\ state[1] = Done

\* C20: in ConfigDesc(n, m) a frame is parsed before the test for remaining
\* bytes: a call that returns ConfigDescLen(n+1, m) or Done has notified each
\* driver at least once, and control-in data with a zero-length buffer gives
\* ParseError with no notify call and no transfer.
C20_ParseBeforeTest ==
    (IsData /\ last.pre.tag = "ConfigDesc") =>
        /\ last.ret.tag \in {"ConfigDescLen", "Done"} =>
              \A i \in 1..NumDrivers : NotesTo(last, i) >= 1
        /\ Buf = <<>> =>
              /\ last.ret = ParseError
              /\ last.notes = <<>>
              /\ last.issued = <<>>

C20_Witness ==
    /\ IsData /\ last.pre.tag = "ConfigDesc" /\ last.event.length = 0
    /\ last.ret = ParseError /\ state[last.dev] = ParseError

====
